---- MODULE Spec2Model ----
(***************************************************************************)
(* A model of enumerio: the Enum sequence container and the Map mapping     *)
(* container (src/enumerio/core.py), and the adapters maybe                *)
(* (src/enumerio/option.py) and safe (src/enumerio/result.py).             *)
(*                                                                         *)
(* One Enum object, the receiver, lives for the whole behaviour; its       *)
(* underlying list is `data`.  A client calls one method on it (pc goes     *)
(* from "idle" to "returned"), may mutate the container that came back in  *)
(* place (list.append), and then drops the result (pc back to "idle").     *)
(* No list grows beyond MaxLen elements.                                   *)
(* Every method is translated as a whole: the operator named after it      *)
(* computes what the Python code computes, the action stores the outcome.  *)
(* Spec is the state machine of an Enum of numbers; MapSpec is that of a   *)
(* Map, built from an Enum of pairs, whose dict is `mdata`.                *)
(***************************************************************************)
EXTENDS Integers, Sequences, FiniteSets, TLC

\* Bounds of the model.
MaxLen == 3        \* longest receiver built by the constructor
MaxVal == 3        \* elements are the integers 1..MaxVal
MaxArg == 4        \* largest magnitude of an integer argument (index, amount, count)
MaxMut == 1        \* in-place mutations a client applies to one returned container
RecursionLimit == 6  \* depth of nested calls at which the interpreter raises RecursionError
MaxKey == 2        \* the keys of the pairs a Map is built from are 1..MaxKey
MaxPairs == 3      \* longest sequence of pairs a Map is built from
MaxKeysArg == 2    \* most keys passed to one call of Map.drop or Map.take

Vals == 1..MaxVal
ArgInts == (0 - MaxArg)..MaxArg
ArgNats == 0..MaxArg

SeqsUpTo(S, n) == UNION {[1..k -> S] : k \in 0..n}

VARIABLES
    data,      \* self.data: the receiver's underlying list
    pc,        \* "idle": no call pending; "returned": a call has returned
    op,        \* name of the method last called
    args,      \* its arguments
    ret,       \* the value it returned (contents, for a container)
    exc,       \* the exception it raised, "none" if it returned
    same,      \* TRUE iff the returned object is the receiver itself (ret is self)
    mutated,   \* number of in-place mutations applied to the returned container
    mdata      \* self.data of the Map receiver: its underlying dict

vars == <<data, pc, op, args, ret, exc, same, mutated, mdata>>

(***************************************************************************)
(* Host-language (Python) list semantics used by the methods.              *)
(***************************************************************************)

\* A slice bound normalised as list.__getitem__(slice) does for step 1:
\* a negative bound counts from the tail, and every bound is clamped to 0..n.
ClampIdx(i, n) ==
    IF i < 0 THEN (IF i + n < 0 THEN 0 ELSE i + n)
    ELSE (IF i > n THEN n ELSE i)

\* self[a:b]
Slice(s, a, b) == SubSeq(s, ClampIdx(a, Len(s)) + 1, ClampIdx(b, Len(s)))

\* self[a:]
SliceFrom(s, a) == SubSeq(s, ClampIdx(a, Len(s)) + 1, Len(s))

\* self[:b]
SliceTo(s, b) == SubSeq(s, 1, ClampIdx(b, Len(s)))

\* An outcome of a call: a returned value, or a raised exception.
Return(v) == [exc |-> "none", val |-> v]
Raise(e) == [exc |-> e, val |-> [tag |-> "None", n |-> 0, sub |-> <<>>]]

RECURSIVE Concat(_)
\* The in-order concatenation of a sequence of sequences.
Concat(ss) == IF ss = <<>> THEN <<>> ELSE Head(ss) \o Concat(Tail(ss))

(***************************************************************************)
(* Enum                                                                    *)
(***************************************************************************)

\* Enum.empty
empty(s) == Len(s) = 0

RECURSIVE ChunkLoopNoPartial(_, _, _, _, _, _)
\* ChunkLoop with the test of `discard` lost: a short last chunk is always left out.
ChunkLoopNoPartial(s, i, count, step, discard, acc) ==
    IF i >= Len(s) THEN acc
    ELSE LET chunk == Slice(s, i, i + count) IN
         IF Len(chunk) < count THEN acc
         ELSE IF i + count >= Len(s) THEN Append(acc, chunk)
         ELSE ChunkLoopNoPartial(s, i + step, count, step, discard, Append(acc, chunk))

RECURSIVE ChunkLoopNoStop(_, _, _, _, _, _)
\* ChunkLoop with the closing `if i + count >= len(self): break` lost: windows go on
\* being cut after one has reached the end.
ChunkLoopNoStop(s, i, count, step, discard, acc) ==
    IF i >= Len(s) THEN acc
    ELSE LET chunk == Slice(s, i, i + count) IN
         IF discard /\ Len(chunk) < count THEN acc
         ELSE ChunkLoopNoStop(s, i + step, count, step, discard, Append(acc, chunk))

RECURSIVE ChunkLoop(_, _, _, _, _, _)
\* The loop of Enum.chunked from index i on: `for i in range(0, len(self), step)`.
ChunkLoop(s, i, count, step, discard, acc) ==
    IF i >= Len(s) THEN acc
    ELSE LET chunk == Slice(s, i, i + count) IN
         IF discard /\ Len(chunk) < count THEN acc
         ELSE IF i + count >= Len(s) THEN Append(acc, chunk)
         ELSE ChunkLoop(s, i + step, count, step, discard, Append(acc, chunk))

\* Enum.chunked(count, step, discard); step = 0 stands for None too (`step or count`).
\* range() raises ValueError for a zero step.
chunked(s, count, step, discard) ==
    LET st == IF step = 0 THEN count ELSE step IN
    IF st = 0 THEN Raise("ValueError")
    ELSE Return(ChunkLoop(s, 0, count, st, discard, <<>>))

\* drop with the negative branch lost: a negative amount is sliced from the head.
dropHeadOnly(s, amount) == SliceFrom(s, amount)

\* Enum.drop(amount)
drop(s, amount) == IF amount < 0 THEN SliceTo(s, amount) ELSE SliceFrom(s, amount)

\* take with an off-by-one slice bound.
takeOneMore(s, amount) == IF amount < 0 THEN SliceFrom(s, amount) ELSE SliceTo(s, amount + 1)

\* Enum.take(amount)
take(s, amount) == IF amount < 0 THEN SliceFrom(s, amount) ELSE SliceTo(s, amount)

\* split written with take and drop, whose negative amounts mean the opposite ends.
splitByTakeDrop(s, count) == <<take(s, count), drop(s, count)>>

\* Enum.split(count)
split(s, count) == <<SliceTo(s, count), SliceFrom(s, count)>>

(***************************************************************************)
(* Values other than plain list elements: wrappers, None, nested elements. *)
(* Each is a record [tag, n, sub]: tag names the class, n is the number of *)
(* a number or character, sub holds the values inside (the payload of a    *)
(* wrapper, the characters of a string, the elements of a nested list).    *)
(***************************************************************************)

PyInt(n) == [tag |-> "int", n |-> n, sub |-> <<>>]    \* a plain number
None == [tag |-> "None", n |-> 0, sub |-> <<>>]
Wrap(t, x) == [tag |-> t, n |-> 0, sub |-> <<x>>]
Payload(w) == w.sub[1]

\* The classes core.py matches on: `from kungfu import Error, Ok, Result`.
Ok(x) == Wrap("kungfu.Ok", x)
Error(e) == Wrap("kungfu.Error", e)

\* option.py
Some(x) == Wrap("Some", x)
Nothing == [tag |-> "Nothing", n |-> 0, sub |-> <<>>]

\* result.py: the package's own Ok and Err, other classes than kungfu's.
ResultOk(x) == Wrap("result.Ok", x)
Err(e) == Wrap("result.Err", e)

\* identity(x), and the other functions a caller passes as key_fun.
KeyFuns == {"identity", "mod2", "const"}

\* key_fun(x)
ApplyKey(key_fun, x) ==
    CASE key_fun = "identity" -> x
      [] key_fun = "mod2" -> x % 2
      [] key_fun = "const" -> 0

RECURSIVE UniqLoopNoKeys(_, _, _, _, _)
\* UniqLoop with `keys.append(key)` lost: no key is ever remembered.
UniqLoopNoKeys(s, key_fun, i, keys, result) ==
    IF i > Len(s) THEN result
    ELSE UniqLoopNoKeys(s, key_fun, i + 1, keys, Append(result, s[i]))

RECURSIVE UniqLoop(_, _, _, _, _)
\* The loop of Enum.uniq_by from the i-th pair of zip(self.map(key_fun), self) on.
UniqLoop(s, key_fun, i, keys, result) ==
    IF i > Len(s) THEN result
    ELSE LET key == ApplyKey(key_fun, s[i]) IN
         IF \A j \in 1..Len(keys) : keys[j] # key
         THEN UniqLoop(s, key_fun, i + 1, Append(keys, key), Append(result, s[i]))
         ELSE UniqLoop(s, key_fun, i + 1, keys, result)

\* Enum.uniq_by(key_fun)
uniq_by(s, key_fun) == UniqLoop(s, key_fun, 1, <<>>, <<>>)

\* Enum.uniq()
uniq(s) == uniq_by(s, "identity")

\* What a transform passed to filter_map may return for an element.
TransformTags == {"kungfu.Ok", "kungfu.Error", "Some", "Nothing", "result.Ok", "result.Err"}

\* The transforms: fn returns the wrapper fn[x % 2], chosen by the parity of the
\* element x, around 2 * x (Nothing has no payload).
Transforms == [{0, 1} -> TransformTags]

\* transform(element)
ApplyTransform(fn, x) ==
    IF fn[x % 2] = "Nothing" THEN Nothing ELSE Wrap(fn[x % 2], PyInt(2 * x))

RECURSIVE FilterMapLoop(_, _, _, _)
\* The loop of Enum.filter_map: `case Ok(x)` appends the payload, `case Error(_e)`
\* passes, and a value that matches neither case is passed over as well.
FilterMapLoop(s, fn, i, result) ==
    IF i > Len(s) THEN result
    ELSE LET r == ApplyTransform(fn, s[i]) IN
         IF r.tag = "kungfu.Ok" THEN FilterMapLoop(s, fn, i + 1, Append(result, Payload(r)))
         ELSE IF r.tag = "kungfu.Error" THEN FilterMapLoop(s, fn, i + 1, result)
         ELSE FilterMapLoop(s, fn, i + 1, result)

\* Enum.filter_map(transform)
filter_map(s, fn) == FilterMapLoop(s, fn, 1, <<>>)

\* Nested elements: a text scalar holds its characters, a nested iterable its elements.
Chr(c) == [tag |-> "chr", n |-> c, sub |-> <<>>]
Str(chars) == [tag |-> "str", n |-> 0, sub |-> [i \in 1..Len(chars) |-> Chr(chars[i])]]
List(items) == [tag |-> "list", n |-> 0, sub |-> items]

\* isinstance(element, Iterable): lists and strings are, numbers are not.
IsIterable(e) == e.tag \in {"list", "str"}

\* list(element), as Enum.__init__ takes it: a list gives its elements, a string its
\* characters, each a string of length one.
Iter(e) ==
    IF e.tag = "str"
    THEN [i \in 1..Len(e.sub) |-> [tag |-> "str", n |-> 0, sub |-> <<e.sub[i]>>]]
    ELSE e.sub

RECURSIVE FlattenLoop(_, _, _)
\* The loop of Enum.flatten in a call at nesting depth `depth`, over the elements
\* still to visit; a nested call beyond RecursionLimit raises RecursionError, which
\* nothing catches.
FlattenLoop(elems, depth, result) ==
    IF elems = <<>> THEN Return(result)
    ELSE LET element == Head(elems) IN
         IF IsIterable(element)
         THEN IF depth + 1 > RecursionLimit THEN Raise("RecursionError")
              ELSE LET sub == FlattenLoop(Iter(element), depth + 1, <<>>) IN
                   IF sub.exc # "none" THEN sub
                   ELSE FlattenLoop(Tail(elems), depth, result \o sub.val)
         ELSE FlattenLoop(Tail(elems), depth, Append(result, element))

\* Enum.flatten()
flatten(elems) == FlattenLoop(elems, 1, <<>>)

\* The nested inputs flatten is called on.
NestedElems ==
    { PyInt(1), Str(<<>>), Str(<<97>>), List(<<PyInt(2), PyInt(3)>>),
      List(<<List(<<PyInt(4)>>)>>), List(<<Str(<<97, 98>>)>>) }

NestedInputs ==
    SeqsUpTo(NestedElems, 2)
        \cup { <<PyInt(1), List(<<PyInt(2), PyInt(3)>>), List(<<List(<<PyInt(4)>>)>>)>> }

\* a % b as Python computes it: the result has the sign of the divisor.
PyMod(a, b) == IF b > 0 THEN a % b ELSE 0 - ((0 - a) % (0 - b))

RECURSIVE DropEveryLoopFromOne(_, _, _, _)
\* DropEveryLoop with the positions counted from 1: the nth, 2nth, ... elements are
\* dropped and the first is kept.
DropEveryLoopFromOne(s, nth, i, result) ==
    IF i >= Len(s) THEN result
    ELSE IF PyMod(i + 1, nth) # 0
         THEN DropEveryLoopFromOne(s, nth, i + 1, Append(result, s[i + 1]))
    ELSE DropEveryLoopFromOne(s, nth, i + 1, result)

RECURSIVE DropEveryLoop(_, _, _, _)
\* The loop of Enum.drop_every over `for i in range(len(self))`, i counted from 0.
DropEveryLoop(s, nth, i, result) ==
    IF i >= Len(s) THEN result
    ELSE IF PyMod(i, nth) # 0 THEN DropEveryLoop(s, nth, i + 1, Append(result, s[i + 1]))
    ELSE DropEveryLoop(s, nth, i + 1, result)

\* Enum.drop_every(nth): the contents returned.
drop_every(s, nth) == IF nth = 0 THEN s ELSE DropEveryLoop(s, nth, 0, <<>>)

\* Enum.drop_every(nth) returns the receiver itself, not a new container, for nth = 0.
drop_every_returns_self(nth) == nth = 0

RECURSIVE StepSlice(_, _, _)
\* self[::nth] for nth # 0, from index i (counted from 0) on.
StepSlice(s, nth, i) ==
    IF i < 0 \/ i >= Len(s) THEN <<>>
    ELSE <<s[i + 1]>> \o StepSlice(s, nth, i + nth)

\* Enum.take_every(nth)
take_every(s, nth) ==
    IF nth = 0 THEN <<>>
    ELSE StepSlice(s, nth, IF nth > 0 THEN 0 ELSE Len(s) - 1)

\* The functions a caller passes to map.
MapFuns == {"double", "succ"}

\* transform(x)
ApplyMap(transform, x) ==
    CASE transform = "double" -> x * 2
      [] transform = "succ" -> x + 1

\* Enum.map(transform)
map(s, transform) == [i \in 1..Len(s) |-> ApplyMap(transform, s[i])]

\* The predicates a caller passes to filter.
Predicates == {"even", "lt3"}

\* predicate(x)
ApplyPred(predicate, x) ==
    CASE predicate = "even" -> x % 2 = 0
      [] predicate = "lt3" -> x < 3

RECURSIVE FilterLoop(_, _, _)
\* filter(predicate, self) from position i on.
FilterLoop(s, predicate, i) ==
    IF i > Len(s) THEN <<>>
    ELSE (IF ApplyPred(predicate, s[i]) THEN <<s[i]>> ELSE <<>>)
             \o FilterLoop(s, predicate, i + 1)

\* Enum.filter(predicate)
filter(s, predicate) == FilterLoop(s, predicate, 1)

RECURSIVE TakeWhileLoop(_, _, _)
\* itertools.takewhile(predicate, self) from position i on.
TakeWhileLoop(s, predicate, i) ==
    IF i > Len(s) THEN <<>>
    ELSE IF ApplyPred(predicate, s[i]) THEN <<s[i]>> \o TakeWhileLoop(s, predicate, i + 1)
    ELSE <<>>

\* Enum.take_while(predicate)
take_while(s, predicate) == TakeWhileLoop(s, predicate, 1)

RECURSIVE DropWhileLoop(_, _, _)
\* itertools.dropwhile(predicate, self) from position i on: once an element fails,
\* it and all that follow are yielded.
DropWhileLoop(s, predicate, i) ==
    IF i > Len(s) THEN <<>>
    ELSE IF ApplyPred(predicate, s[i]) THEN DropWhileLoop(s, predicate, i + 1)
    ELSE SubSeq(s, i, Len(s))

\* Enum.drop_while(predicate)
drop_while(s, predicate) == DropWhileLoop(s, predicate, 1)

RECURSIVE SplitWhileLoopFiltering(_, _, _, _, _)
\* SplitWhileLoop without the break, a failing element alone going to falsy: the
\* stable partition of split_with.
SplitWhileLoopFiltering(s, predicate, i, truthy, falsy) ==
    IF i >= Len(s) THEN <<truthy, falsy>>
    ELSE IF ApplyPred(predicate, s[i + 1])
         THEN SplitWhileLoopFiltering(s, predicate, i + 1, Append(truthy, s[i + 1]), falsy)
         ELSE SplitWhileLoopFiltering(s, predicate, i + 1, truthy, Append(falsy, s[i + 1]))

RECURSIVE SplitWhileLoop(_, _, _, _, _)
\* The loop of Enum.split_while over enumerate(self), i counted from 0: the first
\* failing element sends self[i:] to falsy and ends the loop.
SplitWhileLoop(s, predicate, i, truthy, falsy) ==
    IF i >= Len(s) THEN <<truthy, falsy>>
    ELSE IF ApplyPred(predicate, s[i + 1])
         THEN SplitWhileLoop(s, predicate, i + 1, Append(truthy, s[i + 1]), falsy)
         ELSE <<truthy, falsy \o SliceFrom(s, i)>>

\* Enum.split_while(predicate)
split_while(s, predicate) == SplitWhileLoop(s, predicate, 0, <<>>, <<>>)

\* The orders random.shuffle may leave n elements in.
Perms(n) == {p \in [1..n -> 1..n] : \A i, j \in 1..n : i # j => p[i] # p[j]}

\* Enum.shuffle(), when random.shuffle leaves the copy in order p.
shuffle(s, p) == [i \in 1..Len(s) |-> s[p[i]]]

\* Enum.tap(interceptor): the interceptor only looks; the receiver itself is returned.
tap(s) == s

\* self[index] with the negative indexes lost: only 0 .. len-1 address an element.
getitemNoNegative(s, index) ==
    IF 0 <= index /\ index < Len(s) THEN Return(s[index + 1]) ELSE Raise("IndexError")

\* self[index] for an integer index: list.__getitem__ counts a negative index from
\* the tail and raises IndexError outside -len .. len-1.
getitem(s, index) ==
    IF (0 - Len(s)) <= index /\ index < Len(s)
    THEN Return(s[(IF index < 0 THEN index + Len(s) ELSE index) + 1])
    ELSE Raise("IndexError")

\* Enum.at(index, default)
at(s, index, default) ==
    LET r == getitem(s, index) IN
    IF r.exc = "IndexError" THEN default ELSE r.val

\* The message of fetch's Error: f"fetch(): invalid index: {index}".
FetchMessage(index) == [tag |-> "fetch(): invalid index: ", n |-> index, sub |-> <<>>]

\* Enum.fetch(index)
fetch(s, index) ==
    LET r == getitem(s, index) IN
    IF r.exc = "IndexError" THEN Error(FetchMessage(index)) ELSE Ok(PyInt(r.val))

RECURSIVE MinLoop(_, _, _, _)
\* The builtin min(self, key=key) on a non-empty list: the first element whose key
\* no other element's key is below.
MinLoop(s, key, i, best) ==
    IF i > Len(s) THEN best
    ELSE IF ApplyKey(key, s[i]) < ApplyKey(key, best) THEN MinLoop(s, key, i + 1, s[i])
    ELSE MinLoop(s, key, i + 1, best)

RECURSIVE MaxLoop(_, _, _, _)
\* The builtin max(self, key=key) on a non-empty list.
MaxLoop(s, key, i, best) ==
    IF i > Len(s) THEN best
    ELSE IF ApplyKey(key, s[i]) > ApplyKey(key, best) THEN MaxLoop(s, key, i + 1, s[i])
    ELSE MaxLoop(s, key, i + 1, best)

\* Enum.min_by(key)
min_by(s, key) ==
    IF empty(s) THEN Raise("ValueError") ELSE Return(MinLoop(s, key, 2, s[1]))

\* Enum.max_by(key)
max_by(s, key) ==
    IF empty(s) THEN Raise("ValueError") ELSE Return(MaxLoop(s, key, 2, s[1]))

\* Enum.min()
min(s) ==
    IF empty(s) THEN Raise("ValueError") ELSE Return(MinLoop(s, "identity", 2, s[1]))

\* Enum.max()
max(s) ==
    IF empty(s) THEN Raise("ValueError") ELSE Return(MaxLoop(s, "identity", 2, s[1]))

\* Enum.min_max()
min_max(s) ==
    IF empty(s) THEN Raise("ValueError") ELSE Return(<<min(s).val, max(s).val>>)

\* Enum.min_max_by(key)
min_max_by(s, key) ==
    IF empty(s) THEN Raise("ValueError")
    ELSE Return(<<min_by(s, key).val, max_by(s, key).val>>)

\* random with the guard lost: random.choice raises IndexError on an empty sequence.
randomNoGuard(s, i) ==
    IF empty(s) THEN Raise("IndexError") ELSE Return(s[i])

\* Enum.random(), when random.choice draws position i.
random(s, i) ==
    IF empty(s) THEN Raise("ValueError") ELSE Return(s[i])

\* isinstance(result, Option)
IsOption(v) == v.tag \in {"Some", "Nothing"}

\* The builtin exception classes that are not subclasses of Exception: BaseException
\* itself and those derived from it and not from Exception.
BaseExceptionOnly ==
    {"BaseException", "BaseExceptionGroup", "GeneratorExit", "KeyboardInterrupt",
     "SystemExit"}

\* isinstance(exc, Exception) for an exception of class e: what `except Exception`
\* catches.
IsException(e) == e \notin BaseExceptionOnly

\* What a call fn(*args, **kwargs) of the wrapped function may do: raise an
\* exception, one derived from Exception or not, or return None, an Option, a
\* Result or any other value.
FnResults ==
    { Raise("Exception"), Raise("ValueError"), Raise("KeyboardInterrupt"),
      Raise("SystemExit"), Raise("BaseExceptionGroup") } \cup
    { Return(v) : v \in { None, Nothing, Some(PyInt(1)), Some(None), PyInt(1), PyInt(2),
                          ResultOk(PyInt(1)), Err(PyInt(2)), Ok(PyInt(1)) } }

\* maybe's wrapper with the isinstance test lost: an Option is wrapped once more.
maybeRewraps(r) ==
    IF r.exc # "none" THEN (IF IsException(r.exc) THEN Return(Nothing) ELSE Raise(r.exc))
    ELSE IF r.val = None THEN Return(Nothing)
    ELSE Return(Some(r.val))

\* maybe's wrapper with a bare `except`: every exception is turned into Nothing.
maybeCatchesAll(r) ==
    IF r.exc # "none" THEN Return(Nothing)
    ELSE IF IsOption(r.val) THEN Return(r.val)
    ELSE IF r.val = None THEN Return(Nothing)
    ELSE Return(Some(r.val))

\* maybe(fn)(*args, **kwargs), r being what fn does on these arguments: the outcome
\* of the wrapper.  `except Exception` catches the exceptions derived from
\* Exception; any other leaves the wrapper as fn raised it.
maybe(r) ==
    IF r.exc # "none" THEN (IF IsException(r.exc) THEN Return(Nothing) ELSE Raise(r.exc))
    ELSE IF IsOption(r.val) THEN Return(r.val)
    ELSE IF r.val = None THEN Return(Nothing)
    ELSE Return(Some(r.val))

\* isinstance(result, Result), Result being the class of result.py.
IsResult(v) == v.tag \in {"result.Ok", "result.Err"}

\* The exception object `exc` bound by `except Exception as exc`, of class e.
ExcValue(e) == [tag |-> e, n |-> 0, sub |-> <<>>]

\* safe's wrapper with the isinstance test lost: a Result is wrapped once more.
safeRewraps(r) ==
    IF r.exc # "none"
    THEN (IF IsException(r.exc) THEN Return(Err(ExcValue(r.exc))) ELSE Raise(r.exc))
    ELSE Return(ResultOk(r.val))

\* safe's wrapper with `except BaseException as exc`: every exception goes into Err.
safeCatchesAll(r) ==
    IF r.exc # "none" THEN Return(Err(ExcValue(r.exc)))
    ELSE IF IsResult(r.val) THEN Return(r.val)
    ELSE Return(ResultOk(r.val))

\* safe(fn)(*args, **kwargs), r being what fn does on these arguments: the outcome
\* of the wrapper.  `except Exception as exc` catches the exceptions derived from
\* Exception; any other leaves the wrapper as fn raised it.
safe(r) ==
    IF r.exc # "none"
    THEN (IF IsException(r.exc) THEN Return(Err(ExcValue(r.exc))) ELSE Raise(r.exc))
    ELSE IF IsResult(r.val) THEN Return(r.val)
    ELSE Return(ResultOk(r.val))

(***************************************************************************)
(* dict, the list's companion: a record of the keys in insertion order and *)
(* the function from each key to its value.                                *)
(***************************************************************************)

\* {}
EmptyDict == [keys |-> <<>>, val |-> <<>>]

\* key in d
HasKey(d, key) == key \in DOMAIN d.val

\* d[key] = value: a new key goes last, a present key keeps its place.
SetItem(d, key, value) ==
    [keys |-> IF HasKey(d, key) THEN d.keys ELSE Append(d.keys, key),
     val |-> [k \in DOMAIN d.val \cup {key} |-> IF k = key THEN value ELSE d.val[k]]]

\* The functions a caller passes as value_fun: identity and those passed to map.
ValueFuns == {"identity"} \cup MapFuns

\* value_fun(x)
ApplyValue(value_fun, x) == IF value_fun = "identity" THEN x ELSE ApplyMap(value_fun, x)

RECURSIVE GroupByLoopOverwrites(_, _, _, _, _)
\* GroupByLoop with the append lost: a group holds the last value only.
GroupByLoopOverwrites(s, key_fun, value_fun, i, groups) ==
    IF i > Len(s) THEN groups
    ELSE GroupByLoopOverwrites(s, key_fun, value_fun, i + 1,
             SetItem(groups, ApplyKey(key_fun, s[i]), <<ApplyValue(value_fun, s[i])>>))

RECURSIVE GroupByLoop(_, _, _, _, _)
\* The loop of Enum.group_by from position i on; groups is a defaultdict(Enum), in
\* which a key looked up for the first time gets an empty Enum.
GroupByLoop(s, key_fun, value_fun, i, groups) ==
    IF i > Len(s) THEN groups
    ELSE LET key == ApplyKey(key_fun, s[i])
             group == IF HasKey(groups, key) THEN groups.val[key] ELSE <<>>
         IN  GroupByLoop(s, key_fun, value_fun, i + 1,
                 SetItem(groups, key, Append(group, ApplyValue(value_fun, s[i]))))

\* Enum.group_by(key_fun, value_fun): the dict of the Map returned.
group_by(s, key_fun, value_fun) == GroupByLoop(s, key_fun, value_fun, 1, EmptyDict)

(***************************************************************************)
(* Map                                                                     *)
(***************************************************************************)

RECURSIVE DictFromPairs(_, _, _)
\* dict(pairs) from the i-th pair on: a later pair with a key already present
\* replaces the value and leaves the key where it is.
DictFromPairs(ps, i, d) ==
    IF i > Len(ps) THEN d
    ELSE DictFromPairs(ps, i + 1, SetItem(d, ps[i][1], ps[i][2]))

\* Map.__init__(pairs_or_mapping), given a sequence of pairs.
Map_init(ps) == DictFromPairs(ps, 1, EmptyDict)

\* Map.__eq__: two dicts are equal when they hold the same keys with the same
\* values, whatever the insertion order.
Map_eq(d, other) == d.val = other.val

\* Enum.into(convert) with convert = Map and no mapper.
into(s) == Map_init(s)

\* Map.pairs with the items taken last to first.
Map_pairsReversed(d) ==
    [i \in 1..Len(d.keys) |->
        <<d.keys[Len(d.keys) + 1 - i], d.val[d.keys[Len(d.keys) + 1 - i]]>>]

\* Map.pairs(): Enum(self.items()), the items in insertion order.
Map_pairs(d) == [i \in 1..Len(d.keys) |-> <<d.keys[i], d.val[d.keys[i]]>>]

\* The predicates Map.delete, Map.drop and Map.reject build:
\* `k == key`, `k in keys`, `not predicate(k, v)`.
KeyIs(key) == [kind |-> "eq", key |-> key]
KeyIn(keys) == [kind |-> "in", keys |-> keys]
Not(predicate) == [kind |-> "not", of |-> predicate]

RECURSIVE ApplyPairPred(_, _, _)
\* predicate(k, v)
ApplyPairPred(predicate, k, v) ==
    CASE predicate.kind = "eq" -> k = predicate.key
      [] predicate.kind = "in" -> \E j \in 1..Len(predicate.keys) : predicate.keys[j] = k
      [] predicate.kind = "not" -> ~ApplyPairPred(predicate.of, k, v)

RECURSIVE PairFilterLoop(_, _, _)
\* Enum.filter(lambda pair: predicate(pair[0], pair[1])) from the i-th pair on.
PairFilterLoop(ps, predicate, i) ==
    IF i > Len(ps) THEN <<>>
    ELSE (IF ApplyPairPred(predicate, ps[i][1], ps[i][2]) THEN <<ps[i]>> ELSE <<>>)
             \o PairFilterLoop(ps, predicate, i + 1)

\* Map.filter(predicate)
Map_filter(d, predicate) == into(PairFilterLoop(Map_pairs(d), predicate, 1))

\* Map.reject with the negation lost.
Map_rejectKeeps(d, predicate) == Map_filter(d, predicate)

\* Map.reject(predicate)
Map_reject(d, predicate) == Map_filter(d, Not(predicate))

\* Map.delete(key)
Map_delete(d, key) == Map_reject(d, KeyIs(key))

\* Map.drop(*keys)
Map_drop(d, keys) == Map_reject(d, KeyIn(keys))

RECURSIVE MapTakeLoop(_, _, _, _)
\* The loop of Map.take from the i-th of keys on.
MapTakeLoop(d, keys, i, result) ==
    IF i > Len(keys) THEN result
    ELSE IF ~HasKey(d, keys[i]) THEN MapTakeLoop(d, keys, i + 1, result)
    ELSE MapTakeLoop(d, keys, i + 1, SetItem(result, keys[i], d.val[keys[i]]))

\* Map.take(*keys)
Map_take(d, keys) == MapTakeLoop(d, keys, 1, EmptyDict)

\* The sequences of pairs a Map is built from; a key may come more than once.
PairVals == {1, 2}
PairSeqs == SeqsUpTo((1..MaxKey) \X PairVals, MaxPairs)

\* The keys a caller asks for: those a pair may have, and one that none has.
AskKeys == 1..(MaxKey + 1)
KeyLists == SeqsUpTo(AskKeys, MaxKeysArg)

(***************************************************************************)
(* The state machine.                                                      *)
(***************************************************************************)

Init ==
    /\ data \in SeqsUpTo(Vals, MaxLen)
    /\ pc = "idle"
    /\ op = "none"
    /\ args = <<>>
    /\ ret = <<>>
    /\ exc = "none"
    /\ same = FALSE
    /\ mutated = 0
    /\ mdata = EmptyDict

\* A call of method o with arguments a on the receiver, whose outcome is r; alias
\* says whether the object returned is the receiver itself.  No method assigns to
\* self.data, so the receiver's list is left as it is, and so is the Map's dict.
Call(o, a, r, alias) ==
    /\ pc' = "returned"
    /\ op' = o
    /\ args' = a
    /\ ret' = r.val
    /\ exc' = r.exc
    /\ same' = alias
    /\ mutated' = 0
    /\ UNCHANGED <<data, mdata>>

CallChunked ==
    \E count \in ArgNats, step \in ArgNats, discard \in BOOLEAN :
        /\ pc = "idle"
        /\ Call("chunked", [count |-> count, step |-> step, discard |-> discard],
             chunked(data, count, step, discard), FALSE)

CallDrop ==
    \E amount \in ArgInts :
        /\ pc = "idle"
        /\ Call("drop", [amount |-> amount], Return(drop(data, amount)), FALSE)

CallTake ==
    \E amount \in ArgInts :
        /\ pc = "idle"
        /\ Call("take", [amount |-> amount], Return(take(data, amount)), FALSE)

CallSplit ==
    \E count \in ArgInts :
        /\ pc = "idle"
        /\ Call("split", [count |-> count], Return(split(data, count)), FALSE)

CallUniq ==
    /\ pc = "idle"
    /\ Call("uniq", <<>>, Return(uniq(data)), FALSE)

CallUniqBy ==
    \E key_fun \in KeyFuns :
        /\ pc = "idle"
        /\ Call("uniq_by", [key_fun |-> key_fun], Return(uniq_by(data, key_fun)), FALSE)

CallFilterMap ==
    \E fn \in Transforms :
        /\ pc = "idle"
        /\ Call("filter_map", [transform |-> fn], Return(filter_map(data, fn)), FALSE)

\* Enum(t).flatten() on a container built from the nested input t.
CallFlatten ==
    \E t \in NestedInputs :
        /\ pc = "idle"
        /\ Call("flatten", [input |-> t], flatten(t), FALSE)

CallDropEvery ==
    \E nth \in ArgInts :
        /\ pc = "idle"
        /\ Call("drop_every", [nth |-> nth], Return(drop_every(data, nth)),
                drop_every_returns_self(nth))

CallTakeEvery ==
    \E nth \in ArgInts :
        /\ pc = "idle"
        /\ Call("take_every", [nth |-> nth], Return(take_every(data, nth)), FALSE)

CallMap ==
    \E transform \in MapFuns :
        /\ pc = "idle"
        /\ Call("map", [transform |-> transform], Return(map(data, transform)), FALSE)

CallFilter ==
    \E predicate \in Predicates :
        /\ pc = "idle"
        /\ Call("filter", [predicate |-> predicate], Return(filter(data, predicate)), FALSE)

CallShuffle ==
    \E p \in Perms(Len(data)) :
        /\ pc = "idle"
        /\ Call("shuffle", <<>>, Return(shuffle(data, p)), FALSE)

CallTap ==
    /\ pc = "idle"
    /\ Call("tap", <<>>, Return(tap(data)), TRUE)

\* The defaults a caller passes to at.
Defaults == {0, 1}

CallAt ==
    \E index \in ArgInts, default \in Defaults :
        /\ pc = "idle"
        /\ Call("at", [index |-> index, default |-> default],
                Return(at(data, index, default)), FALSE)

CallFetch ==
    \E index \in ArgInts :
        /\ pc = "idle"
        /\ Call("fetch", [index |-> index], Return(fetch(data, index)), FALSE)

CallMin ==
    /\ pc = "idle"
    /\ Call("min", <<>>, min(data), FALSE)

CallMax ==
    /\ pc = "idle"
    /\ Call("max", <<>>, max(data), FALSE)

CallMinMax ==
    /\ pc = "idle"
    /\ Call("min_max", <<>>, min_max(data), FALSE)

CallMinBy ==
    \E key \in KeyFuns :
        /\ pc = "idle"
        /\ Call("min_by", [key |-> key], min_by(data, key), FALSE)

CallMaxBy ==
    \E key \in KeyFuns :
        /\ pc = "idle"
        /\ Call("max_by", [key |-> key], max_by(data, key), FALSE)

CallMinMaxBy ==
    \E key \in KeyFuns :
        /\ pc = "idle"
        /\ Call("min_max_by", [key |-> key], min_max_by(data, key), FALSE)

\* random.choice draws any position of a non-empty receiver.
CallRandom ==
    \E i \in (IF empty(data) THEN {0} ELSE 1..Len(data)) :
        /\ pc = "idle"
        /\ Call("random", <<>>, random(data, i), FALSE)

\* A call of maybe(fn) on some arguments, on which fn does r.
CallMaybe ==
    \E r \in FnResults :
        /\ pc = "idle"
        /\ Call("maybe", [fn |-> r], maybe(r), FALSE)

\* A call of safe(fn) on some arguments, on which fn does r.
CallSafe ==
    \E r \in FnResults :
        /\ pc = "idle"
        /\ Call("safe", [fn |-> r], safe(r), FALSE)

CallSplitWhile ==
    \E predicate \in Predicates :
        /\ pc = "idle"
        /\ Call("split_while", [predicate |-> predicate],
                Return(split_while(data, predicate)), FALSE)

CallTakeWhile ==
    \E predicate \in Predicates :
        /\ pc = "idle"
        /\ Call("take_while", [predicate |-> predicate],
                Return(take_while(data, predicate)), FALSE)

CallDropWhile ==
    \E predicate \in Predicates :
        /\ pc = "idle"
        /\ Call("drop_while", [predicate |-> predicate],
                Return(drop_while(data, predicate)), FALSE)

CallGroupBy ==
    \E key_fun \in KeyFuns, value_fun \in ValueFuns :
        /\ pc = "idle"
        /\ Call("group_by", [key_fun |-> key_fun, value_fun |-> value_fun],
                Return(group_by(data, key_fun, value_fun)), FALSE)

\* The methods that return one flat container of elements.
ContainerOps ==
    {"drop", "take", "uniq", "uniq_by", "drop_every", "take_every", "map", "filter",
     "shuffle", "tap"}

\* The client appends an element to the container a call returned (list.append on
\* the returned object; on the first of the two that split returned).  When that
\* object is the receiver itself, it is the receiver's list that grows.
Mutate ==
    /\ pc = "returned"
    /\ exc = "none"
    /\ op \in ContainerOps \cup {"split"}
    /\ mutated < MaxMut
    /\ Len(data) < MaxLen
    /\ ret' = IF op = "split" THEN <<Append(ret[1], 1), ret[2]>> ELSE Append(ret, 1)
    /\ data' = IF same THEN Append(data, 1) ELSE data
    /\ mutated' = mutated + 1
    /\ UNCHANGED <<pc, op, args, exc, same, mdata>>

\* The client drops the result and is ready for the next call.
Forget ==
    /\ pc = "returned"
    /\ pc' = "idle"
    /\ op' = "none"
    /\ args' = <<>>
    /\ ret' = <<>>
    /\ exc' = "none"
    /\ same' = FALSE
    /\ mutated' = 0
    /\ UNCHANGED <<data, mdata>>

Next ==
    \/ CallChunked
    \/ CallDrop
    \/ CallTake
    \/ CallSplit
    \/ CallUniq
    \/ CallUniqBy
    \/ CallFilterMap
    \/ CallFlatten
    \/ CallDropEvery
    \/ CallTakeEvery
    \/ CallMap
    \/ CallFilter
    \/ CallShuffle
    \/ CallTap
    \/ CallAt
    \/ CallFetch
    \/ CallMin
    \/ CallMax
    \/ CallMinMax
    \/ CallMinBy
    \/ CallMaxBy
    \/ CallMinMaxBy
    \/ CallRandom
    \/ CallMaybe
    \/ CallSafe
    \/ CallGroupBy
    \/ CallSplitWhile
    \/ CallTakeWhile
    \/ CallDropWhile
    \/ Mutate
    \/ Forget

Spec == Init /\ [][Next]_vars

(***************************************************************************)
(* The state machine of a Map: the client holds seq, an Enum of pairs, and *)
(* m = seq.into(Map), and calls the methods of m.                          *)
(***************************************************************************)

MapInit ==
    /\ data \in PairSeqs
    /\ mdata = into(data)
    /\ pc = "idle"
    /\ op = "none"
    /\ args = <<>>
    /\ ret = <<>>
    /\ exc = "none"
    /\ same = FALSE
    /\ mutated = 0

CallMapDelete ==
    \E key \in AskKeys :
        /\ pc = "idle"
        /\ Call("Map.delete", [key |-> key], Return(Map_delete(mdata, key)), FALSE)

CallMapDrop ==
    \E keys \in KeyLists :
        /\ pc = "idle"
        /\ Call("Map.drop", [keys |-> keys], Return(Map_drop(mdata, keys)), FALSE)

CallMapTake ==
    \E keys \in KeyLists :
        /\ pc = "idle"
        /\ Call("Map.take", [keys |-> keys], Return(Map_take(mdata, keys)), FALSE)

CallMapPairs ==
    /\ pc = "idle"
    /\ Call("Map.pairs", <<>>, Return(Map_pairs(mdata)), FALSE)

\* m.pairs().into(Map): into is called on the Enum that pairs has just returned.
CallInto ==
    /\ pc = "returned"
    /\ op = "Map.pairs"
    /\ Call("into", [self |-> ret], Return(into(ret)), FALSE)

MapNext ==
    \/ CallMapDelete
    \/ CallMapDrop
    \/ CallMapTake
    \/ CallMapPairs
    \/ CallInto
    \/ Forget

MapSpec == MapInit /\ [][MapNext]_vars

\* The call of method o has just returned normally, and nothing touched its result.
Returned(o) == pc = "returned" /\ op = o /\ exc = "none" /\ mutated = 0

MinOf(a, b) == IF a < b THEN a ELSE b

(***************************************************************************)
(* C1..C3: chunked, take/drop, split.                                      *)
(***************************************************************************)

\* C1: for count >= 1, default step and discard = False, the chunks of chunked(count)
\* concatenate in order to the receiver's elements, and every chunk but possibly
\* the last has exactly count elements.
C1_ChunkedReconstructs ==
    (Returned("chunked") /\ args.count >= 1 /\ args.step = 0 /\ ~args.discard) =>
        /\ Concat(ret) = data
        /\ \A k \in 1..(Len(ret) - 1) : Len(ret[k]) = args.count
        /\ (data = <<1, 2, 3>> /\ args.count = 2) => ret = << <<1, 2>>, <<3>> >>

\* chunked(2) on three elements has returned a full chunk and a short last one.
C1_Witness ==
    /\ Returned("chunked") /\ args.count = 2 /\ args.step = 0 /\ ~args.discard
    /\ Len(data) = 3 /\ Len(ret) = 2 /\ Len(ret[2]) = 1

\* C2: for 0 <= n <= len(c), take(n) has n elements and take(n) followed by drop(n)
\* is exactly c.
C2_TakeDropReconstructs ==
    /\ (Returned("take") /\ args.amount >= 0 /\ args.amount <= Len(data)) =>
            /\ Len(ret) = args.amount
            /\ ret \o drop(data, args.amount) = data
    /\ (Returned("drop") /\ args.amount >= 0 /\ args.amount <= Len(data)) =>
            /\ Len(ret) = Len(data) - args.amount
            /\ take(data, args.amount) \o ret = data

\* take(1) on three elements has returned one element, and drop(1) is the other two.
C2_Witness ==
    /\ Returned("take") /\ args.amount = 1 /\ Len(data) = 3
    /\ Len(ret) = 1 /\ Len(drop(data, 1)) = 2

\* C3: for every integer n, split(n) returns (first, rest) with first ++ rest = c;
\* for n >= 0 first has min(n, len(c)) elements, for n < 0 rest is the last
\* min(|n|, len(c)) elements.
C3_SplitClamps ==
    Returned("split") =>
        LET n == args.count
            first == ret[1]
            rest == ret[2]
        IN  /\ first \o rest = data
            /\ n >= 0 => Len(first) = MinOf(n, Len(data))
            /\ n < 0 => Len(rest) = MinOf(0 - n, Len(data))
            /\ (data = <<1, 2, 3>> /\ n = 0 - 1) => ret = << <<1, 2>>, <<3>> >>
            /\ (data = <<1, 2, 3>> /\ n = 0 - 4) => ret = << <<>>, <<1, 2, 3>> >>
            /\ (data = <<1, 2, 3>> /\ n = 4) => ret = << <<1, 2, 3>>, <<>> >>

\* split(-1) on [1, 2, 3] has returned ([1, 2], [3]).
C3_Witness ==
    /\ Returned("split") /\ args.count = 0 - 1
    /\ data = <<1, 2, 3>> /\ ret = << <<1, 2>>, <<3>> >>

(***************************************************************************)
(* C4, C5: uniq / uniq_by, filter_map.                                     *)
(***************************************************************************)

RECURSIVE AtPositions(_, _, _)
\* The elements of s at the positions in P, from position i on, in order.
AtPositions(s, P, i) ==
    IF i > Len(s) THEN <<>>
    ELSE (IF i \in P THEN <<s[i]>> ELSE <<>>) \o AtPositions(s, P, i + 1)

\* The position of the first occurrence of v in s.
FirstPos(s, v) == CHOOSE i \in 1..Len(s) : s[i] = v /\ \A j \in 1..(i - 1) : s[j] # v

\* The positions of s whose key no earlier position has.
FirstOfKey(s, key_fun) ==
    {i \in 1..Len(s) : \A j \in 1..(i - 1) : ApplyKey(key_fun, s[j]) # ApplyKey(key_fun, s[i])}

\* C4: uniq() has no two equal elements, holds every distinct value of c, ordered by
\* first occurrence in c; uniq_by(key) keeps, for each distinct key, exactly the first
\* element with that key, in the original relative order.
C4_UniqFirstOccurrences ==
    /\ Returned("uniq") =>
          /\ \A i, j \in 1..Len(ret) : i # j => ret[i] # ret[j]
          /\ {ret[i] : i \in 1..Len(ret)} = {data[i] : i \in 1..Len(data)}
          /\ \A i, j \in 1..Len(ret) : i < j => FirstPos(data, ret[i]) < FirstPos(data, ret[j])
    /\ Returned("uniq_by") =>
          ret = AtPositions(data, FirstOfKey(data, args.key_fun), 1)

\* uniq_by(mod2) on [1, 3, 2] has dropped the 3, whose key the 1 had already.
C4_Witness ==
    /\ Returned("uniq_by") /\ args.key_fun = "mod2"
    /\ data = <<1, 3, 2>> /\ ret = <<1, 2>>

\* The payloads of the elements of s whose transform has a tag in tags, in order.
Payloads(s, fn, tags) ==
    LET P == {i \in 1..Len(s) : ApplyTransform(fn, s[i]).tag \in tags}
        r == [i \in 1..Len(s) |->
                 IF ApplyTransform(fn, s[i]).sub = <<>> THEN None
                 ELSE Payload(ApplyTransform(fn, s[i]))]
    IN  AtPositions(r, P, 1)

\* C5: filter_map(fn) returns, in input order, exactly the unwrapped payloads of the
\* elements for which fn returns an Ok or a Some, and drops those mapped to an Err or
\* Nothing; an element mapped to Some(v) contributes v.
C5_FilterMapKeepsOkAndSome ==
    Returned("filter_map") =>
        ret = Payloads(data, args.transform,
                       {"kungfu.Ok", "result.Ok", "Some"})

(***************************************************************************)
(* C6, C7: flatten, value semantics.                                       *)
(***************************************************************************)

RECURSIVE LeavesOf(_)
\* The leaves of nested elements, left to right and depth first, with a text
\* scalar taken as one leaf.
LeavesOf(elems) ==
    IF elems = <<>> THEN <<>>
    ELSE (IF Head(elems).tag = "list" THEN LeavesOf(Head(elems).sub) ELSE <<Head(elems)>>)
             \o LeavesOf(Tail(elems))

\* C6: flatten() terminates on every finite nested input and returns its leaves in
\* left-to-right depth-first order, a string being one atomic leaf.
C6_FlattenLeaves ==
    (pc = "returned" /\ op = "flatten") =>
        /\ exc = "none"
        /\ ret = LeavesOf(args.input)

\* C7: every combinator but tap returns a new container, so an in-place mutation of
\* a returned container never changes the receiver's elements.
C7_ValueSemantics ==
    [][(mutated' = mutated + 1 /\ op # "tap") => data' = data]_vars

(***************************************************************************)
(* C8..C10: at / fetch, the aggregates, maybe.                             *)
(***************************************************************************)

\* C8: for every integer i, if 0 <= i < len(c) then at(i, d) is the element at
\* position i and fetch(i) is Ok of it; otherwise at(i, d) is d and fetch(i) is an
\* error value; neither raises.
C8_IndexOutsideZeroToLen ==
    /\ (pc = "returned" /\ op = "at") =>
          /\ exc = "none"
          /\ ret = IF 0 <= args.index /\ args.index < Len(data)
                   THEN data[args.index + 1] ELSE args.default
    /\ (pc = "returned" /\ op = "fetch") =>
          /\ exc = "none"
          /\ ret = IF 0 <= args.index /\ args.index < Len(data)
                   THEN Ok(PyInt(data[args.index + 1]))
                   ELSE Error(FetchMessage(args.index))

\* C8 as amended: an index i with -len(c) <= i < 0 addresses the element at position
\* len(c) + i; at returns the default, and fetch an error value, only for i < -len(c)
\* or i >= len(c).
C8_IndexFromEitherEnd ==
    LET i == args.index
        inRange == (0 - Len(data)) <= i /\ i < Len(data)
        pos == IF i < 0 THEN Len(data) + i ELSE i
    IN  /\ (pc = "returned" /\ op = "at") =>
              /\ exc = "none"
              /\ ret = IF inRange THEN data[pos + 1] ELSE args.default
        /\ (pc = "returned" /\ op = "fetch") =>
              /\ exc = "none"
              /\ ret = IF inRange THEN Ok(PyInt(data[pos + 1]))
                       ELSE Error(FetchMessage(i))

\* at(-1, 0) on [1, 2, 3] has returned the last element, not the default.
C8_Witness ==
    /\ pc = "returned" /\ op = "at" /\ data = <<1, 2, 3>> /\ args.default = 0
    /\ args.index = 0 - 1 /\ ret = 3

AggregateOps == {"min", "max", "min_max", "min_by", "max_by", "min_max_by", "random"}

Elems(s) == {s[i] : i \in 1..Len(s)}

\* What an aggregate returns on a non-empty receiver.
AggregateResult ==
    CASE op = "min" -> ret \in Elems(data) /\ \A e \in Elems(data) : ret <= e
      [] op = "max" -> ret \in Elems(data) /\ \A e \in Elems(data) : ret >= e
      [] op = "min_max" ->
            /\ ret[1] <= ret[2]
            /\ ret[1] \in Elems(data) /\ \A e \in Elems(data) : ret[1] <= e
            /\ ret[2] \in Elems(data) /\ \A e \in Elems(data) : ret[2] >= e
      [] op = "min_by" ->
            /\ ret \in Elems(data)
            /\ \A e \in Elems(data) : ApplyKey(args.key, ret) <= ApplyKey(args.key, e)
      [] op = "max_by" ->
            /\ ret \in Elems(data)
            /\ \A e \in Elems(data) : ApplyKey(args.key, ret) >= ApplyKey(args.key, e)
      [] op = "min_max_by" ->
            /\ ret[1] \in Elems(data) /\ ret[2] \in Elems(data)
            /\ \A e \in Elems(data) :
                  /\ ApplyKey(args.key, ret[1]) <= ApplyKey(args.key, e)
                  /\ ApplyKey(args.key, ret[2]) >= ApplyKey(args.key, e)
      [] op = "random" -> ret \in Elems(data)

\* C9: min, max, min_max, min_by, max_by, min_max_by and random raise the
\* empty-collection error exactly when the receiver has no element; otherwise they
\* return (the least, the greatest, a pair lo <= hi, an element of the receiver);
\* either way the receiver is left as it was.
C9_AggregatesFailOnlyOnEmpty ==
    /\ [](  (pc = "returned" /\ op \in AggregateOps) =>
              /\ exc = "ValueError" <=> Len(data) = 0
              /\ exc # "ValueError" => (exc = "none" /\ AggregateResult)  )
    /\ [][ (pc = "idle" /\ op' \in AggregateOps) => data' = data ]_vars

\* min_max has returned a pair of different elements, and random has raised on the
\* empty receiver.
C9_Witness ==
    /\ pc = "returned"
    /\ \/ op = "min_max" /\ exc = "none" /\ ret[1] < ret[2]
       \/ op = "random" /\ exc = "ValueError" /\ data = <<>>

\* C10: maybe(fn)(x) never raises; it is Nothing if fn(x) raises, Nothing if fn(x)
\* returns None, fn(x) itself if that is an Option, and Some(fn(x)) otherwise.
C10_MaybeCases ==
    (pc = "returned" /\ op = "maybe") =>
        LET r == args.fn IN
        /\ exc = "none"
        /\ r.exc # "none" => ret = Nothing
        /\ (r.exc = "none" /\ r.val = None) => ret = Nothing
        /\ (r.exc = "none" /\ r.val.tag \in {"Some", "Nothing"}) => ret = r.val
        /\ (r.exc = "none" /\ r.val.tag \notin {"Some", "Nothing", "None"}) => ret = Some(r.val)

\* C10 as amended: maybe(fn)(x) is Nothing if fn(x) raises an exception derived
\* from Exception, and raises the very exception if fn(x) raises one that is not
\* (BaseException, BaseExceptionGroup, GeneratorExit, KeyboardInterrupt,
\* SystemExit); it never raises otherwise, and is
\* Nothing if fn(x) returns None, fn(x) itself if that is an Option, and Some(fn(x))
\* in every other case.
C10_MaybeCatchesException ==
    (pc = "returned" /\ op = "maybe") =>
        LET r == args.fn IN
        /\ (r.exc # "none" /\ r.exc \notin BaseExceptionOnly) =>
               (exc = "none" /\ ret = Nothing)
        /\ (r.exc # "none" /\ r.exc \in BaseExceptionOnly) => exc = r.exc
        /\ r.exc = "none" => exc = "none"
        /\ (r.exc = "none" /\ r.val = None) => ret = Nothing
        /\ (r.exc = "none" /\ r.val.tag \in {"Some", "Nothing"}) => ret = r.val
        /\ (r.exc = "none" /\ r.val.tag \notin {"Some", "Nothing", "None"}) => ret = Some(r.val)

\* maybe has let the KeyboardInterrupt that the function raised out.
C10_Witness ==
    /\ pc = "returned" /\ op = "maybe"
    /\ args.fn = Raise("KeyboardInterrupt") /\ exc = "KeyboardInterrupt"

(***************************************************************************)
(* C11: safe.                                                              *)
(***************************************************************************)

\* C11: safe(fn)(x) never raises; it is Err(e) with e the exception raised if fn(x)
\* raises, fn(x) itself if that is a Result of this package (Ok or Err), and
\* Ok(fn(x)) in every other case, None included.
C11_SafeCases ==
    (pc = "returned" /\ op = "safe") =>
        LET r == args.fn IN
        /\ exc = "none"
        /\ r.exc # "none" => (ret.tag = "result.Err" /\ Payload(ret).tag = r.exc)
        /\ (r.exc = "none" /\ r.val.tag \in {"result.Ok", "result.Err"}) => ret = r.val
        /\ (r.exc = "none" /\ r.val.tag \notin {"result.Ok", "result.Err"}) =>
               (ret.tag = "result.Ok" /\ Payload(ret) = r.val)
        /\ (r.exc = "none" /\ r.val = None) => ret = ResultOk(None)

\* C11 as amended: safe(fn)(x) is Err(e) if fn(x) raises an exception e derived from
\* Exception, and raises the very exception if fn(x) raises one that is not
\* (BaseException, BaseExceptionGroup, GeneratorExit, KeyboardInterrupt,
\* SystemExit); it never raises otherwise, and is
\* fn(x) itself if that is a Result of this package (Ok or Err), and Ok(fn(x)) in
\* every other case, None included.
C11_SafeCatchesException ==
    (pc = "returned" /\ op = "safe") =>
        LET r == args.fn IN
        /\ (r.exc # "none" /\ r.exc \notin BaseExceptionOnly) =>
               (exc = "none" /\ ret.tag = "result.Err" /\ Payload(ret).tag = r.exc)
        /\ (r.exc # "none" /\ r.exc \in BaseExceptionOnly) => exc = r.exc
        /\ r.exc = "none" => exc = "none"
        /\ (r.exc = "none" /\ r.val.tag \in {"result.Ok", "result.Err"}) => ret = r.val
        /\ (r.exc = "none" /\ r.val.tag \notin {"result.Ok", "result.Err"}) =>
               (ret.tag = "result.Ok" /\ Payload(ret) = r.val)
        /\ (r.exc = "none" /\ r.val = None) => ret = ResultOk(None)

\* safe has let the SystemExit that the function raised out.
C11_Witness ==
    /\ pc = "returned" /\ op = "safe"
    /\ args.fn = Raise("SystemExit") /\ exc = "SystemExit"

(***************************************************************************)
(* C12: group_by.                                                          *)
(***************************************************************************)

\* The positions of s whose key is k.
WithKey(s, key_fun, k) == {i \in 1..Len(s) : ApplyKey(key_fun, s[i]) = k}

RECURSIVE SumLen(_, _)
\* The total number of values in the groups of the keys in ks.
SumLen(d, ks) == IF ks = <<>> THEN 0 ELSE Len(d.val[Head(ks)]) + SumLen(d, Tail(ks))

\* C12: the keys of group_by(key_fn, value_fn) are the distinct key_fn values of c
\* in first-encounter order; the group of key k is value_fn(x) for exactly the x of c
\* with key_fn(x) = k, in encounter order; every element lands in exactly one group.
C12_GroupByPartitions ==
    Returned("group_by") =>
        LET kf == args.key_fun
            firsts == AtPositions(data, FirstOfKey(data, kf), 1)
            values == [i \in 1..Len(data) |-> ApplyValue(args.value_fun, data[i])]
        IN  /\ ret.keys = [i \in 1..Len(firsts) |-> ApplyKey(kf, firsts[i])]
            /\ DOMAIN ret.val = {ApplyKey(kf, data[i]) : i \in 1..Len(data)}
            /\ \A k \in DOMAIN ret.val :
                   ret.val[k] = AtPositions(values, WithKey(data, kf, k), 1)
            /\ SumLen(ret, ret.keys) = Len(data)
            /\ (data = <<1, 2, 3>> /\ kf = "mod2" /\ args.value_fun = "identity") =>
                   /\ ret.keys = <<1, 0>>
                   /\ ret.val[1] = <<1, 3>>
                   /\ ret.val[0] = <<2>>

\* [1, 2, 3] grouped by x % 2 has given two groups, the odd one first.
C12_Witness ==
    /\ Returned("group_by") /\ args.key_fun = "mod2" /\ args.value_fun = "identity"
    /\ data = <<1, 2, 3>> /\ ret.keys = <<1, 0>> /\ ret.val[1] = <<1, 3>>

(***************************************************************************)
(* C13, C14: Map.drop / Map.take / Map.delete, and the round trip through  *)
(* pairs.  Both are about the Map state machine, MapSpec.                  *)
(***************************************************************************)

MapOps == {"Map.delete", "Map.drop", "Map.take"}

\* The set of the keys in a list of keys.
KeysOf(ks) == {ks[j] : j \in 1..Len(ks)}

\* The pairs of dict d whose key is in S.
Restrict(d, S) == [k \in (DOMAIN d.val) \cap S |-> d.val[k]]

\* Every key of d is listed once in its insertion order.
WellFormed(d) ==
    /\ KeysOf(d.keys) = DOMAIN d.val
    /\ \A i, j \in 1..Len(d.keys) : i # j => d.keys[i] # d.keys[j]

\* What drop, take and delete return on the mapping m.
MapResult ==
    CASE op = "Map.drop" ->
            LET taken == Map_take(mdata, args.keys) IN
            /\ ret.val = Restrict(mdata, (DOMAIN mdata.val) \ KeysOf(args.keys))
            /\ (DOMAIN ret.val) \cap (DOMAIN taken.val) = {}
            /\ (DOMAIN ret.val) \cup (DOMAIN taken.val) = DOMAIN mdata.val
            /\ \A k \in DOMAIN taken.val : taken.val[k] = mdata.val[k]
      [] op = "Map.take" ->
            LET dropped == Map_drop(mdata, args.keys) IN
            /\ ret.val = Restrict(mdata, KeysOf(args.keys))
            /\ (DOMAIN ret.val) \cap (DOMAIN dropped.val) = {}
            /\ (DOMAIN ret.val) \cup (DOMAIN dropped.val) = DOMAIN mdata.val
      [] op = "Map.delete" ->
            /\ ret.val = Restrict(mdata, (DOMAIN mdata.val) \ {args.key})
            /\ Map_eq(ret, Map_drop(mdata, <<args.key>>))

\* C13: drop(*ks) returns exactly the pairs of m whose key is not in ks, take(*ks)
\* exactly those whose key is in ks, delete(k) equals drop(k); none raises for an
\* absent key; take(*ks) and drop(*ks) together hold every pair of m exactly once;
\* and m itself is left as it was.
C13_MapDropTakeDelete ==
    /\ [](  (pc = "returned" /\ op \in MapOps) =>
              (exc = "none" /\ WellFormed(ret) /\ MapResult)  )
    /\ [][ (pc = "idle" /\ op' \in MapOps) => mdata' = mdata ]_vars

\* drop(1, 3) on {1: 1, 2: 2}, where 3 is absent, has returned {2: 2}.
C13_Witness ==
    /\ Returned("Map.drop") /\ args.keys = <<1, 3>>
    /\ data = << <<1, 1>>, <<2, 2>> >>
    /\ ret.keys = <<2>> /\ ret.val[2] = 2

\* No two pairs of ps have the same key.
UniqueKeys(ps) == \A i, j \in 1..Len(ps) : i # j => ps[i][1] # ps[j][1]

\* C14: for a sequence seq of unique-keyed pairs and m = seq.into(Map), m.pairs()
\* lists the pairs of seq in their order, and m.pairs().into(Map) is equal to m.
C14_PairsRoundTrip ==
    /\ (Returned("Map.pairs") /\ UniqueKeys(data)) => ret = data
    /\ (Returned("into") /\ UniqueKeys(data)) =>
            /\ args.self = data
            /\ Map_eq(ret, mdata)
            /\ Map_eq(ret, into(data))

\* The pairs (2, 1), (1, 2) have gone to a Map, to its pairs and to a Map again.
C14_Witness ==
    /\ Returned("into") /\ data = << <<2, 1>>, <<1, 2>> >>
    /\ args.self = data /\ ret.keys = <<2, 1>>

(***************************************************************************)
(* C15..C18: within Enum again.                                            *)
(***************************************************************************)

\* C15: for k >= 1, drop(-k) is c without its last min(k, len(c)) elements and
\* take(-k) is exactly those last elements, both in the original order, so that
\* drop(-k) followed by take(-k) is c.
C15_NegativeAmountFromTail ==
    LET k == 0 - args.amount
        m == MinOf(k, Len(data))
    IN  /\ (Returned("drop") /\ k >= 1) =>
               /\ ret = SubSeq(data, 1, Len(data) - m)
               /\ ret \o take(data, args.amount) = data
        /\ (Returned("take") /\ k >= 1) =>
               /\ ret = SubSeq(data, Len(data) - m + 1, Len(data))
               /\ drop(data, args.amount) \o ret = data

\* drop(-2) on [1, 2, 3] has returned [1], and take(-2) is [2, 3].
C15_Witness ==
    /\ Returned("drop") /\ args.amount = 0 - 2
    /\ data = <<1, 2, 3>> /\ ret = <<1>> /\ take(data, 0 - 2) = <<2, 3>>

\* C16: for count >= 1 and step >= 1 (step defaulting to count), chunk number k, from
\* 0, of chunked(count, step, discard) is the window of c that starts at index
\* k * step and has min(count, len(c) - k * step) elements; every chunk is
\* non-empty; no chunk follows the first window that reaches the end of c; only the
\* last chunk can be shorter than count, and none is with discard; the chunks stop
\* only there, or where the next window would start past the end.
C16_ChunkedWindows ==
    (Returned("chunked") /\ args.count >= 1) =>
        LET count == args.count
            step == IF args.step = 0 THEN count ELSE args.step
            n == Len(data)
            start(k) == k * step
            size(k) == MinOf(count, n - start(k))
            last == Len(ret) - 1
        IN  /\ \A k \in 0..last :
                  /\ start(k) < n
                  /\ ret[k + 1] = SubSeq(data, start(k) + 1, start(k) + size(k))
                  /\ Len(ret[k + 1]) >= 1
                  /\ k < last => start(k) + count < n
                  /\ k < last => Len(ret[k + 1]) = count
                  /\ args.discard => Len(ret[k + 1]) = count
            /\ \/ start(last + 1) >= n
               \/ last >= 0 /\ start(last) + count >= n
               \/ args.discard /\ size(last + 1) < count
            /\ (data = <<1, 2, 3>> /\ count = 2 /\ step = 1) =>
                   ret = << <<1, 2>>, <<2, 3>> >>

\* chunked(2, step=1) on [1, 2, 3] has returned the two overlapping windows and
\* has not gone on to [3].
C16_Witness ==
    /\ Returned("chunked") /\ args.count = 2 /\ args.step = 1 /\ ~args.discard
    /\ data = <<1, 2, 3>> /\ ret = << <<1, 2>>, <<2, 3>> >>

\* C17: split_while(p) returns (prefix, remainder), prefix the longest leading run
\* of elements satisfying p and remainder the unfiltered rest, which starts at the
\* first element failing p and is empty if none fails; prefix ++ remainder = c and
\* split_while(p) = (take_while(p), drop_while(p)).
C17_SplitWhileAtFirstFailure ==
    /\ Returned("split_while") =>
          LET p == args.predicate
              prefix == ret[1]
              remainder == ret[2]
          IN  /\ prefix \o remainder = data
              /\ \A i \in 1..Len(prefix) : ApplyPred(p, prefix[i])
              /\ remainder # <<>> => ~ApplyPred(p, remainder[1])
              /\ ret = <<take_while(data, p), drop_while(data, p)>>
    /\ Returned("take_while") => ret = split_while(data, args.predicate)[1]
    /\ Returned("drop_while") => ret = split_while(data, args.predicate)[2]

\* split_while(x < 3) on [1, 3, 2] has returned ([1], [3, 2]): the 2 after the
\* first failing element stays in the remainder.
C17_Witness ==
    /\ Returned("split_while") /\ args.predicate = "lt3"
    /\ data = <<1, 3, 2>> /\ ret = << <<1>>, <<3, 2>> >>

\* The positions, counted from 1, of the elements at indexes 0, nth, 2 * nth, ...
EveryNth(s, nth) == {i \in 1..Len(s) : (i - 1) % nth = 0}

\* C18: for nth >= 1, take_every(nth) keeps exactly the elements at indexes 0, nth,
\* 2 * nth, ... (the first always) and drop_every(nth) exactly the others, both in
\* the original order; for nth = 0, drop_every returns all the elements and
\* take_every none.
C18_EveryNthComplementary ==
    /\ (Returned("take_every") /\ args.nth >= 1) =>
          /\ ret = AtPositions(data, EveryNth(data, args.nth), 1)
          /\ data # <<>> => (ret # <<>> /\ ret[1] = data[1])
          /\ Len(ret) + Len(drop_every(data, args.nth)) = Len(data)
    /\ (Returned("drop_every") /\ args.nth >= 1) =>
          /\ ret = AtPositions(data, (1..Len(data)) \ EveryNth(data, args.nth), 1)
          /\ Len(ret) + Len(take_every(data, args.nth)) = Len(data)
    /\ (Returned("take_every") /\ args.nth = 0) => ret = <<>>
    /\ (Returned("drop_every") /\ args.nth = 0) => ret = data

\* drop_every(2) on [1, 2, 3] has returned [2], and take_every(2) is [1, 3].
C18_Witness ==
    /\ Returned("drop_every") /\ args.nth = 2
    /\ data = <<1, 2, 3>> /\ ret = <<2>> /\ take_every(data, 2) = <<1, 3>>

====
